---- MODULE Spec2Model ----
(***************************************************************************)
(* Model of kur's batch evaluation engine (kur/model/evaluate.py,          *)
(* Evaluator.compile / Evaluator.evaluate) and of the chunked data source  *)
(* (kur/sources/mysource.py, MySource).                                    *)
(*                                                                         *)
(* Data representation                                                     *)
(*   row            a 1-D record of RowWidth integers                      *)
(*   NoneRow        the None placeholder of a preallocated python list     *)
(*   batch          a mapping  field name -> sequence of rows              *)
(*   python list    [kind |-> "list",    rows |-> <<row, ...>>, data |-> <<>>] *)
(*   1-D ndarray    [kind |-> "ndarray", rows |-> <<>>, data |-> <<int, ...>>] *)
(*   optional dict  [isNone |-> BOOLEAN, val |-> mapping]                  *)
(***************************************************************************)
EXTENDS Integers, Sequences, FiniteSets, TLC

(* ------------------------------ bounds --------------------------------- *)
MaxBatches == 3
MaxBatchSize == 2
RowWidth == 2
TotalSlack == 1
MaxLen == 3
MaxChunkSize == 2
MaxShuffles == 1
MaxNames == 3
MaxCompiles == 2

(* ------------------------------ state ---------------------------------- *)
VARIABLES
    (* the providers handed to evaluate: the batches they yield, in order,   *)
    (* and what len(provider) reports                                        *)
    batches, provLen,
    (* Evaluator and its collaborators (compile) *)
    compiled, built, registered, provSources, events, lastCompile,
    (* locals of the evaluate call in progress *)
    pc, provider, callback, total, has_truth, result, truth, n_entries, pos,
    (* what the caller observes: callback invocations, return value *)
    cbCalls, ret,
    (* the evaluate call completed before the current one *)
    prev,
    (* MySource: the object's fields, its generator, what a pass yielded *)
    fnames, chunk_size, it, chunks, readLog, lastShuffle, shuffles,
    (* MySupplier: the registry, the argument and outcome of get_sources *)
    data, gsArg, gsRet

evalVars == <<batches, provLen, compiled, built, registered, provSources, events,
              lastCompile,
              pc, provider, callback, total, has_truth, result, truth,
              n_entries, pos, cbCalls, ret, prev>>
compileVars == <<compiled, built, registered, provSources, events, lastCompile>>
sourceVars == <<fnames, chunk_size, it, chunks, readLog, lastShuffle, shuffles>>
supplierVars == <<data, gsArg, gsRet>>
vars == <<batches, provLen, compiled, built, registered, provSources, events,
          lastCompile,
          pc, provider, callback, total, has_truth, result, truth,
          n_entries, pos, cbCalls, ret, prev,
          fnames, chunk_size, it, chunks, readLog, lastShuffle, shuffles,
          data, gsArg, gsRet>>

(* --------------------------- collaborators ----------------------------- *)
(* model.outputs: the names of the model's output nodes *)
Outputs == {"y", "z"}

(* the names model.get_data_sources() yields *)
ModelSources == {"aux"}

(* two providers over the same batches: one knows its length, one does not *)
Providers == {"sized", "unsized"}

(* len(provider) when the total is indeterminate *)
NoTotal == -1

NoneRow == << >>

EmptyDict == [k \in {} |-> << >>]

NoneDict == [isNone |-> TRUE, val |-> EmptyDict]

Dict(d) == [isNone |-> FALSE, val |-> d]

(* the input field of record i, and its ground truth under output name k *)
XRow(i) == [j \in 1..RowWidth |-> 10 * i + j]

TruthRow(k, i) == [j \in 1..RowWidth |-> 10 * i + j + (IF k = "y" THEN 300 ELSE 400)]

(* backend.evaluate on one input row, for output node k *)
PredictRow(k, xrow) == [j \in 1..Len(xrow) |-> xrow[j] + (IF k = "y" THEN 100 ELSE 200)]

(* backend.evaluate(model, data=batch, compiled): one row per record *)
BackendEvaluate(batch) ==
    [k \in Outputs |-> [r \in 1..Len(batch["x"]) |-> PredictRow(k, batch["x"][r])]]

(* get_any_value(batch): the provider keeps all fields of a batch aligned *)
GetAnyValue(batch) == batch[CHOOSE k \in DOMAIN batch : TRUE]

(* the batch holding records first .. first+size-1 under the fields keys *)
MakeBatch(keys, first, size) ==
    [k \in keys |-> [r \in 1..size |->
        IF k = "x" THEN XRow(first + r - 1) ELSE TruthRow(k, first + r - 1)]]

KeyChoices == {{"x"}, {"x", "y"}, {"x", "y", "z"}}

RECURSIVE SumTo(_, _)
SumTo(sz, n) == IF n = 0 THEN 0 ELSE sz[n] + SumTo(sz, n - 1)

BatchSize(b) == Len(GetAnyValue(b))

RECURSIVE RowsBefore(_, _)
RowsBefore(bs, j) == IF j <= 1 THEN 0 ELSE BatchSize(bs[j - 1]) + RowsBefore(bs, j - 1)

TotalRows == RowsBefore(batches, Len(batches) + 1)

(* ------------------------- python / numpy helpers ---------------------- *)
Min(a, b) == IF a < b THEN a ELSE b

Max(a, b) == IF a > b THEN a ELSE b

(* [None] * n *)
NoneList(n) == [i \in 1..n |-> NoneRow]

SliceInsert(lst, a, b, v) ==
    LET lo == Min(a, Len(lst))
    IN  SubSeq(lst, 1, lo) \o v \o SubSeq(lst, lo + 1, Len(lst))

(* lst[a:b] = v  on a python list: the slice bounds are clamped to the list *)
SliceAssign(lst, a, b, v) ==
    LET lo == Min(a, Len(lst))
        hi == Max(lo, Min(b, Len(lst)))
    IN  SubSeq(lst, 1, lo) \o v \o SubSeq(lst, hi + 1, Len(lst))

(* lst.extend(v): appends the rows of v *)
Extend(lst, v) == lst \o v

(* numpy.concatenate(rows): joins 1-D rows along axis 0 into one 1-D array *)
RECURSIVE Concatenate(_)
Concatenate(rows) ==
    IF rows = << >> THEN << >> ELSE Head(rows) \o Concatenate(Tail(rows))

PyList(rows) == [kind |-> "list", rows |-> rows, data |-> << >>]

NdArray(flat) == [kind |-> "ndarray", rows |-> << >>, data |-> flat]

(* ------------------------------ compile -------------------------------- *)
(* the most recent compile call: its arguments and the state it found *)
NoCompile == [called |-> FALSE, recompile |-> FALSE, with_provider |-> "None",
              compiled |-> 0, built |-> FALSE, registered |-> {},
              provSources |-> [p \in Providers |-> {}]]

ThisCompile(recompile, with_provider) ==
    [called |-> TRUE, recompile |-> recompile, with_provider |-> with_provider,
     compiled |-> compiled, built |-> built, registered |-> registered,
     provSources |-> provSources]

CompileBodyBuildLast(with_provider) ==
    /\ built' = TRUE
    /\ registered' = IF ~built /\ with_provider # "None"
                     THEN registered \cup {with_provider} ELSE registered
    /\ compiled' = compiled + 1
    /\ provSources' = IF with_provider # "None"
                      THEN [provSources EXCEPT ![with_provider] = @ \cup ModelSources]
                      ELSE provSources
    /\ events' = <<"backend.compile">>
                 \o (IF with_provider # "None" THEN <<"add_source">> ELSE << >>)
                 \o (IF ~built
                     THEN (IF with_provider # "None" THEN <<"register_provider">> ELSE << >>)
                          \o <<"build">>
                     ELSE << >>)

(* lines 63-78: build if needed, backend.compile, merge the data sources;  *)
(* events lists the collaborator calls in the order they are made; the     *)
(* handle returned by backend.compile is numbered by the count of compiles *)
CompileBody(with_provider) ==
    /\ built' = TRUE
    /\ registered' = IF ~built /\ with_provider # "None"
                     THEN registered \cup {with_provider} ELSE registered
    /\ compiled' = compiled + 1
    /\ provSources' = IF with_provider # "None"
                      THEN [provSources EXCEPT ![with_provider] = @ \cup ModelSources]
                      ELSE provSources
    /\ events' = (IF ~built
                  THEN (IF with_provider # "None" THEN <<"register_provider">> ELSE << >>)
                       \o <<"build">>
                  ELSE << >>)
                 \o <<"backend.compile">>
                 \o (IF with_provider # "None" THEN <<"add_source">> ELSE << >>)

CompileAlways(recompile, with_provider) ==
    /\ lastCompile' = ThisCompile(recompile, with_provider)
    /\ CompileBody(with_provider)

(* Evaluator.compile(recompile, with_provider); with_provider "None" = None *)
Compile(recompile, with_provider) ==
    /\ lastCompile' = ThisCompile(recompile, with_provider)
    /\ IF compiled # 0 /\ ~recompile
       THEN /\ events' = << >>
            /\ UNCHANGED <<compiled, built, registered, provSources>>
       ELSE CompileBody(with_provider)

(* ------------------------------ evaluate ------------------------------- *)
NoRet == [kind |-> "pending", exc |-> "", result |-> NoneDict, truth |-> NoneDict]

ReturnNone == [kind |-> "None", exc |-> "", result |-> NoneDict, truth |-> NoneDict]

ReturnTuple(r, t) == [kind |-> "tuple", exc |-> "", result |-> r, truth |-> t]

Raise(e) == [kind |-> "raise", exc |-> e, result |-> NoneDict, truth |-> NoneDict]

Mode == IF callback THEN "callback" ELSE IF total = NoTotal THEN "unknown" ELSE "known"

NoCall == [mode |-> "none", total |-> NoTotal, ret |-> NoRet, calls |-> << >>]

(* the call at hand, as the caller saw it *)
ThisCall == [mode |-> Mode, total |-> total, ret |-> ret, calls |-> cbCalls]

(* evaluate(provider, callback): lines 107-113, up to the first batch *)
EvaluateCall(p, cb) ==
    /\ pc \in {"idle", "done"}
    /\ Compile(FALSE, p)
    /\ provider' = p
    /\ callback' = cb
    /\ total' = provLen[p]
    /\ result' = NoneDict
    /\ truth' = NoneDict
    /\ has_truth' = "None"
    /\ n_entries' = 0
    /\ pos' = 0
    /\ cbCalls' = << >>
    /\ ret' = NoRet
    /\ pc' = "loop"
    /\ prev' = IF pc = "done" THEN ThisCall ELSE prev
    /\ UNCHANGED <<batches, provLen>>
    /\ UNCHANGED sourceVars
    /\ UNCHANGED supplierVars

(* has_truth = all(k in batch for k in self.model.outputs) *)
DetectTruth(batch) == \A k \in Outputs : k \in DOMAIN batch

HasTruthReevaluated(batch) == IF DetectTruth(batch) THEN "True" ELSE "False"

HasTruthAfter(batch) ==
    IF has_truth = "None"
    THEN (IF DetectTruth(batch) THEN "True" ELSE "False")
    ELSE has_truth

(* the unknown-total branch, lines 136-146 *)
ResultUnknown(evaluated) ==
    LET r0 == IF result.isNone THEN [k \in Outputs |-> << >>] ELSE result.val
    IN  Dict([k \in DOMAIN r0 |->
              IF k \in DOMAIN evaluated THEN Extend(r0[k], evaluated[k]) ELSE r0[k]])

TruthUnknownFirstRecord(batch) ==
    LET t0 == IF truth.isNone THEN [k \in Outputs |-> << >>] ELSE truth.val
    IN  Dict([k \in DOMAIN t0 |-> Extend(t0[k], SubSeq(batch[k], 1, 1))])

TruthUnknown(batch) ==
    LET t0 == IF truth.isNone THEN [k \in Outputs |-> << >>] ELSE truth.val
    IN  Dict([k \in DOMAIN t0 |-> Extend(t0[k], batch[k])])

(* the known-total branch, lines 149-160 *)
ResultKnown(evaluated, batch_size) ==
    LET r0 == IF result.isNone
              THEN [k \in DOMAIN evaluated |-> NoneList(total)] ELSE result.val
    IN  Dict([k \in DOMAIN r0 |->
              IF k \in DOMAIN evaluated
              THEN SliceAssign(r0[k], n_entries, n_entries + batch_size, evaluated[k])
              ELSE r0[k]])

TruthKnown(evaluated, batch, batch_size) ==
    LET t0 == IF truth.isNone
              THEN [k \in DOMAIN evaluated |-> NoneList(total)] ELSE truth.val
    IN  Dict([k \in DOMAIN t0 |->
              SliceAssign(t0[k], n_entries, n_entries + batch_size, batch[k])])

(* the keys truth is (or is about to be) a mapping over *)
TruthKeys(evaluated) ==
    IF ~truth.isNone THEN DOMAIN truth.val
    ELSE IF total = NoTotal THEN Outputs ELSE DOMAIN evaluated

CallbackArgsWithTruth(evaluated) ==
    [evaluated |-> evaluated, truth |-> Dict([k \in Outputs |-> << >>])]

(* callback(evaluated, truth), line 162: the local truth is what is passed *)
CallbackArgs(evaluated) == [evaluated |-> evaluated, truth |-> truth]

(* one turn of  for batch in provider  (lines 121-165) *)
EvaluateBatch ==
    /\ pc = "loop"
    /\ pos < Len(batches)
    /\ LET batch == batches[pos + 1]
           evaluated == BackendEvaluate(batch)
           batch_size == BatchSize(batch)
           ht == HasTruthAfter(batch)
       IN  /\ has_truth' = ht
           /\ pos' = pos + 1
           /\ IF callback
              THEN /\ cbCalls' = Append(cbCalls, CallbackArgs(evaluated))
                   /\ n_entries' = n_entries + batch_size
                   /\ UNCHANGED <<result, truth, ret, pc>>
              ELSE IF ht = "True" /\ \E k \in TruthKeys(evaluated) : k \notin DOMAIN batch
              THEN (* batch[k] raises KeyError; the call is abandoned *)
                   /\ ret' = Raise("KeyError")
                   /\ pc' = "done"
                   /\ UNCHANGED <<result, truth, n_entries, cbCalls>>
              ELSE /\ result' = IF total = NoTotal
                                THEN ResultUnknown(evaluated)
                                ELSE ResultKnown(evaluated, batch_size)
                   /\ truth' = IF ht = "True"
                               THEN (IF total = NoTotal
                                     THEN TruthUnknown(batch)
                                     ELSE TruthKnown(evaluated, batch, batch_size))
                               ELSE truth
                   /\ n_entries' = n_entries + batch_size
                   /\ UNCHANGED <<cbCalls, ret, pc>>
    /\ UNCHANGED <<batches, provLen, provider, callback, total, prev>>
    /\ UNCHANGED compileVars
    /\ UNCHANGED sourceVars
    /\ UNCHANGED supplierVars

(* result[k] = numpy.concatenate(v) for every key *)
ConcatenateAll(d) == Dict([k \in DOMAIN d.val |-> NdArray(Concatenate(d.val[k]))])

AsLists(d) ==
    IF d.isNone THEN NoneDict ELSE Dict([k \in DOMAIN d.val |-> PyList(d.val[k])])

(* lines 167-176: what evaluate returns once the provider is exhausted *)
Finalize ==
    IF callback THEN ReturnNone
    ELSE IF total = NoTotal
    THEN (IF result.isNone THEN Raise("AttributeError")
          ELSE IF \E k \in DOMAIN result.val : result.val[k] = << >> THEN Raise("ValueError")
          ELSE IF truth.isNone THEN Raise("AttributeError")
          ELSE IF \E k \in DOMAIN truth.val : truth.val[k] = << >> THEN Raise("ValueError")
          ELSE ReturnTuple(ConcatenateAll(result), ConcatenateAll(truth)))
    ELSE ReturnTuple(AsLists(result), AsLists(truth))

EvaluateReturn ==
    /\ pc = "loop"
    /\ pos = Len(batches)
    /\ ret' = Finalize
    /\ pc' = "done"
    /\ UNCHANGED <<batches, provLen, provider, callback, total, has_truth, result, truth,
                   n_entries, pos, cbCalls, prev>>
    /\ UNCHANGED compileVars
    /\ UNCHANGED sourceVars
    /\ UNCHANGED supplierVars

(* a call of compile made by the user of the Evaluator, between evaluations *)
CompileCall(recompile, with_provider) ==
    /\ pc \in {"idle", "done"}
    /\ compiled < MaxCompiles
    /\ Compile(recompile, with_provider)
    /\ UNCHANGED <<batches, provLen, pc, provider, callback, total, has_truth, result,
                   truth, n_entries, pos, cbCalls, ret, prev>>
    /\ UNCHANGED sourceVars
    /\ UNCHANGED supplierVars

(* ------------------------------ MySupplier ----------------------------- *)
(* MySource(fnames=fnames, name=n): the source registered under a name *)
SourceNamed(n) == [class |-> "MySource", name |-> n]

(* self.data, and its keys in insertion order *)
DataKeys == <<"x", "y">>

InitialData == [k \in {"x", "y"} |-> SourceNamed(k)]

(* the names a caller may ask for: the registered ones and two others *)
Names == {"x", "y", "z", "w"}

NoArg == [kind |-> "None", names |-> << >>]

(* the arguments of get_sources: None, one scalar name, a list or a tuple *)
GetSourcesArgs ==
    {NoArg}
    \cup {[kind |-> "scalar", names |-> <<n>>] : n \in Names}
    \cup {[kind |-> c, names |-> ns] :
            c \in {"list", "tuple"}, ns \in UNION {[1..l -> Names] : l \in 0..MaxNames}}

GsPending == [kind |-> "pending", val |-> EmptyDict, key |-> "", valid |-> << >>]

RequestedNoDefault(arg) == arg.names

(* lines 25-28: the list of names that is looked up *)
Requested(arg) == IF arg.kind = "None" THEN DataKeys ELSE arg.names

Range(seq) == {seq[i] : i \in 1..Len(seq)}

(* lines 30-35: the first requested name that is not registered *)
FirstInvalid(names) ==
    names[CHOOSE i \in 1..Len(names) :
            /\ names[i] \notin DOMAIN data
            /\ \A j \in 1..(i - 1) : names[j] \in DOMAIN data]

GetSourcesPartial(arg) ==
    [kind |-> "dict",
     val |-> [k \in Range(Requested(arg)) \cap DOMAIN data |-> data[k]],
     key |-> "", valid |-> << >>]

(* MySupplier.get_sources(sources): the returned mapping or the KeyError *)
GetSourcesResult(arg) ==
    LET sources == Requested(arg)
    IN  IF \E i \in 1..Len(sources) : sources[i] \notin DOMAIN data
        THEN [kind |-> "KeyError", val |-> EmptyDict,
              key |-> FirstInvalid(sources), valid |-> DataKeys]
        ELSE [kind |-> "dict", val |-> [k \in Range(sources) |-> data[k]],
              key |-> "", valid |-> << >>]

(* one call of get_sources with the argument at hand *)
GetSources ==
    /\ gsRet.kind = "pending"
    /\ gsRet' = GetSourcesResult(gsArg)
    /\ UNCHANGED <<data, gsArg>>
    /\ UNCHANGED evalVars
    /\ UNCHANGED sourceVars

(* the caller prepares the next call *)
Request(arg) ==
    /\ gsRet.kind # "pending"
    /\ gsArg' = arg
    /\ gsRet' = GsPending
    /\ UNCHANGED data
    /\ UNCHANGED evalVars
    /\ UNCHANGED sourceVars

SupplierAtRest ==
    /\ data = InitialData
    /\ gsArg = NoArg
    /\ gsRet = GsPending

(* --------------------------- initial states ---------------------------- *)
(* the lengths a provider of n records may report: n, or off by the slack *)
SizedTotals(n) == {t \in {n - TotalSlack, n, n + TotalSlack} : t >= 0}

(* the first batch has the fields first, every later batch the fields rest *)
InitEvaluator ==
    /\ \E n \in 0..MaxBatches :
         \E sz \in [1..n -> 1..MaxBatchSize], first \in KeyChoices, rest \in KeyChoices :
            /\ n <= 1 => rest = first
            /\ n = 0 => first = {"x"}
            /\ batches = [j \in 1..n |->
                    MakeBatch(IF j = 1 THEN first ELSE rest, SumTo(sz, j - 1), sz[j])]
            /\ \E t \in SizedTotals(SumTo(sz, n)) :
                    provLen = [p \in Providers |-> IF p = "sized" THEN t ELSE NoTotal]
    /\ compiled = 0
    /\ built = TRUE
    /\ registered = {}
    /\ provSources = [p \in Providers |-> {}]
    /\ events = << >>
    /\ lastCompile = NoCompile
    /\ pc = "idle"
    /\ provider = "None"
    /\ callback = FALSE
    /\ total = NoTotal
    /\ has_truth = "None"
    /\ result = NoneDict
    /\ truth = NoneDict
    /\ n_entries = 0
    /\ pos = 0
    /\ cbCalls = << >>
    /\ ret = NoRet
    /\ prev = NoCall

NoShuffle == [done |-> FALSE, before |-> << >>, indices |-> << >>, raised |-> FALSE]

NoIter == [state |-> "none", start |-> 0, num_entries |-> 0, dirty |-> FALSE,
           after |-> "none", ordering |-> << >>]

SourceAtRest ==
    /\ fnames = << >>
    /\ chunk_size = 1
    /\ it = NoIter
    /\ chunks = << >>
    /\ readLog = << >>
    /\ lastShuffle = NoShuffle
    /\ shuffles = 0

NextEval ==
    \/ \E p \in Providers, cb \in BOOLEAN : EvaluateCall(p, cb)
    \/ EvaluateBatch
    \/ EvaluateReturn

Init == InitEvaluator /\ SourceAtRest /\ SupplierAtRest

Next == NextEval

Spec == Init /\ [][Next]_vars


(* ====================== properties of Evaluator.evaluate =============== *)
(* the predictions / the ground truth of the first n batches, in order *)
RECURSIVE AllEvaluated(_, _)
AllEvaluated(k, n) ==
    IF n = 0 THEN << >> ELSE AllEvaluated(k, n - 1) \o BackendEvaluate(batches[n])[k]

RECURSIVE AllTruth(_, _)
AllTruth(k, n) ==
    IF n = 0 THEN << >> ELSE AllTruth(k, n - 1) \o batches[n][k]

(* the rows delivered to the callback under output k, concatenated in call order *)
RECURSIVE CallbackConcat(_, _, _)
CallbackConcat(calls, k, n) ==
    IF n = 0 THEN << >> ELSE CallbackConcat(calls, k, n - 1) \o calls[n].evaluated[k]

(* an array holds exactly these rows, in this order *)
HasRows(arr, rows) == arr.kind = "list" /\ arr.rows = rows

(* an array holds the prediction of every record, in record order *)
HoldsPredictions(arr, k) ==
    IF arr.kind = "list"
    THEN /\ Len(arr.rows) >= TotalRows
         /\ SubSeq(arr.rows, 1, TotalRows) = AllEvaluated(k, Len(batches))
    ELSE arr.data = Concatenate(AllEvaluated(k, Len(batches)))

FirstBatchLacksTruth == Len(batches) >= 1 /\ ~DetectTruth(batches[1])

LaterBatchHasTruth == \E j \in 2..Len(batches) : DetectTruth(batches[j])

(* one (completed) call was made with a known total equal to the number of *)
(* rows, the other with an unknown total, both without callback             *)
KnownAndUnknown(a, b) ==
    a.mode = "known" /\ a.total = TotalRows /\ b.mode = "unknown"

(* C1: strategy equivalence. When evaluate (no callback) has completed on   *)
(* the same batches both with len(provider) = the number of rows and with   *)
(* len(provider) unknown, the two calls returned the same (result, truth).  *)
C1_StrategyEquivalence ==
    (pc = "done" /\ (KnownAndUnknown(prev, ThisCall) \/ KnownAndUnknown(ThisCall, prev)))
    => /\ ret.kind = "tuple"
       /\ prev.ret = ret

(* C2: without a callback, in either strategy, when the first batch lacks   *)
(* a model output name, evaluate returns (result, None) and result holds    *)
(* the predictions of every record.                                         *)
C2_NoTruthReturnsNone ==
    (pc = "done" /\ ~callback /\ FirstBatchLacksTruth)
    => /\ ret.kind = "tuple"
       /\ ret.truth.isNone
       /\ ~ret.result.isNone
       /\ \A k \in Outputs : /\ k \in DOMAIN ret.result.val
                             /\ HoldsPredictions(ret.result.val[k], k)

(* C3: has_truth is decided by the first batch alone and never changes      *)
(* afterwards; when the first batch lacks a ground-truth key the pass ends  *)
(* with truth = None, whatever later batches hold.                          *)
C3_TruthDecidedOnce ==
    pc \in {"loop", "done"}
    => /\ has_truth = (IF pos = 0 THEN "None"
                       ELSE IF DetectTruth(batches[1]) THEN "True" ELSE "False")
       /\ (~callback /\ FirstBatchLacksTruth)
          => /\ truth.isNone
             /\ ret.kind = "tuple" => ret.truth.isNone

C3_Witness ==
    /\ pc = "done"
    /\ ~callback
    /\ FirstBatchLacksTruth
    /\ LaterBatchHasTruth
    /\ ret.kind = "tuple"
    /\ ret.truth.isNone
    /\ has_truth = "False"

(* the result of the plain call is the concatenation of what the callback *)
(* of the other call received                                             *)
ResultIsCallbackConcat(plain, withCb) ==
    (/\ withCb.mode = "callback"
     /\ plain.mode \in {"known", "unknown"}
     /\ plain.mode = "known" => plain.total = TotalRows
     /\ plain.ret.exc # "KeyError"
     /\ Len(batches) >= 1)
    => /\ plain.ret.kind = "tuple"
       /\ ~plain.ret.result.isNone
       /\ \A k \in Outputs :
            /\ k \in DOMAIN plain.ret.result.val
            /\ HasRows(plain.ret.result.val[k],
                       CallbackConcat(withCb.calls, k, Len(withCb.calls)))

(* C4: callback/accumulate equivalence. When a callback pass and a pass     *)
(* without callback have completed on the same batches, the result returned *)
(* without callback has, for each output name, the rows the callback        *)
(* received, concatenated in call order.                                    *)
C4_CallbackEquivalence ==
    pc = "done" => /\ ResultIsCallbackConcat(prev, ThisCall)
                   /\ ResultIsCallbackConcat(ThisCall, prev)

C6_CallbackReceivesTruth ==
    \A i \in 1..Len(cbCalls) :
        IF DetectTruth(batches[1])
        THEN /\ ~cbCalls[i].truth.isNone
             /\ \A k \in Outputs : /\ k \in DOMAIN cbCalls[i].truth.val
                                   /\ k \in DOMAIN batches[i]
                                   /\ cbCalls[i].truth.val[k] = batches[i][k]
        ELSE cbCalls[i].truth.isNone

(* the rows of batch j sit in arr right after the rows of batches 1..j-1 *)
PlacedIn(arr, j, rows) ==
    /\ RowsBefore(batches, j) + Len(rows) <= Len(arr)
    /\ SubSeq(arr, RowsBefore(batches, j) + 1, RowsBefore(batches, j) + Len(rows)) = rows

FullyPopulated(arr) == Len(arr) = total /\ \A i \in 1..Len(arr) : arr[i] # NoneRow

(* C7: known-total placement. With len(provider) = the number of rows, the  *)
(* cursor before batch j is the number of rows of the earlier batches, the  *)
(* rows of every processed batch j sit at [s_j, s_j + batch_size_j), and    *)
(* after the last batch every result array (every truth array with          *)
(* has_truth) has length total and no None placeholder.                     *)
C7_KnownTotalPlacement ==
    (/\ pc \in {"loop", "done"}
     /\ ~callback
     /\ total # NoTotal
     /\ total = TotalRows
     /\ ret.kind # "raise")
    => /\ n_entries = RowsBefore(batches, pos + 1)
       /\ pos >= 1 => ~result.isNone
       /\ \A k \in DOMAIN result.val :
            /\ \A j \in 1..pos : PlacedIn(result.val[k], j, BackendEvaluate(batches[j])[k])
            /\ pos = Len(batches) => FullyPopulated(result.val[k])
       /\ (has_truth = "True") => ~truth.isNone
       /\ \A k \in DOMAIN truth.val :
            /\ \A j \in 1..pos : PlacedIn(truth.val[k], j, batches[j][k])
            /\ pos = Len(batches) => FullyPopulated(truth.val[k])
       /\ pc = "done" => /\ ret.kind = "tuple"
                         /\ ret.result = AsLists(result)
                         /\ ret.truth = AsLists(truth)

C7_Witness ==
    /\ pc = "done"
    /\ ~callback
    /\ total = 5
    /\ TotalRows = 5
    /\ Len(batches) = 3
    /\ BatchSize(batches[3]) = 1
    /\ has_truth = "True"
    /\ ret.kind = "tuple"
    /\ ~ret.truth.isNone
    /\ \A k \in Outputs : ret.result.val[k].rows = AllEvaluated(k, 3)

(* ------------------------------ MySource ------------------------------- *)
(* the datum stored under self.name in the backing file f; never all-zero *)
Record(f) == f

(* one row of np.zeros(...) *)
ZeroRow == 0

(* MySource.__len__ *)
SourceLen == Len(fnames)

(* lst[a:b] on a python list, 0 <= a <= b *)
PySlice(lst, a, b) == SubSeq(lst, Min(a, Len(lst)) + 1, Min(b, Len(lst)))

(* [self.fnames[i] for i in indices]; an index >= len raises IndexError *)
ShuffleRaises(indices) == \E i \in 1..Len(indices) : indices[i] >= Len(fnames)

ShuffledReversed(names, indices) ==
    [i \in 1..Len(indices) |-> names[indices[Len(indices) + 1 - i] + 1]]

Shuffled(names, indices) == [i \in 1..Len(indices) |-> names[indices[i] + 1]]

(* MySource.shuffle(indices); a pass already reading is marked dirty and   *)
(* the ordering it found is forgotten                                     *)
Shuffle(indices) ==
    /\ shuffles < MaxShuffles
    /\ shuffles' = shuffles + 1
    /\ IF ShuffleRaises(indices)
       THEN UNCHANGED fnames
       ELSE fnames' = Shuffled(fnames, indices)
    /\ lastShuffle' = [done |-> TRUE, before |-> fnames, indices |-> indices,
                       raised |-> ShuffleRaises(indices)]
    /\ it' = IF it.state \in {"running", "exhausted"}
             THEN [it EXCEPT !.dirty = TRUE, !.ordering = << >>] ELSE it
    /\ UNCHANGED <<chunk_size, chunks, readLog>>
    /\ UNCHANGED evalVars
    /\ UNCHANGED supplierVars

FirstStartSecondChunk == chunk_size

(* start = 0, line 35 *)
FirstStart == 0

(* iter(source): a new generator; its body has not started running. after  *)
(* records the state of the generator it replaces                          *)
Iter ==
    /\ it' = [state |-> "created", start |-> 0, num_entries |-> 0, dirty |-> FALSE,
              after |-> it.state, ordering |-> << >>]
    /\ chunks' = << >>
    /\ readLog' = << >>
    /\ UNCHANGED <<fnames, chunk_size, lastShuffle, shuffles>>
    /\ UNCHANGED evalVars
    /\ UNCHANGED supplierVars

(* out: chunk_size rows of zeros, the first len(chunk_fnames) overwritten *)
MakeChunk(chunk_fnames) ==
    [ind \in 1..chunk_size |->
        IF ind <= Len(chunk_fnames) THEN Record(chunk_fnames[ind]) ELSE ZeroRow]

(* next(generator): runs the body of __iter__ up to the next yield; the     *)
(* assignment start = end that follows the yield is folded into this step;  *)
(* ordering records the file list the body found when it started           *)
NextChunk ==
    /\ it.state \in {"created", "running"}
    /\ LET start == IF it.state = "created" THEN FirstStart ELSE it.start
           num_entries == IF it.state = "created" THEN SourceLen ELSE it.num_entries
           end == Min(num_entries, start + chunk_size)
           chunk_fnames == PySlice(fnames, start, end)
       IN  IF start < num_entries
           THEN /\ chunks' = Append(chunks, MakeChunk(chunk_fnames))
                /\ readLog' = Append(readLog, chunk_fnames)
                /\ it' = [it EXCEPT !.state = "running", !.start = end,
                                    !.num_entries = num_entries,
                                    !.ordering = IF it.state = "created"
                                                 THEN fnames ELSE @]
           ELSE /\ it' = [it EXCEPT !.state = "exhausted", !.start = start,
                                    !.num_entries = num_entries,
                                    !.ordering = IF it.state = "created"
                                                 THEN fnames ELSE @]
                /\ UNCHANGED <<chunks, readLog>>
    /\ UNCHANGED <<fnames, chunk_size, lastShuffle, shuffles>>
    /\ UNCHANGED evalVars
    /\ UNCHANGED supplierVars

EvaluatorAtRest ==
    /\ batches = << >>
    /\ provLen = [p \in Providers |-> NoTotal]
    /\ compiled = 0
    /\ built = TRUE
    /\ registered = {}
    /\ provSources = [p \in Providers |-> {}]
    /\ events = << >>
    /\ lastCompile = NoCompile
    /\ pc = "idle"
    /\ provider = "None"
    /\ callback = FALSE
    /\ total = NoTotal
    /\ has_truth = "None"
    /\ result = NoneDict
    /\ truth = NoneDict
    /\ n_entries = 0
    /\ pos = 0
    /\ cbCalls = << >>
    /\ ret = NoRet
    /\ prev = NoCall

(* a source over n backing files, in the order os.listdir gave them *)
InitSource ==
    /\ \E n \in 0..MaxLen : fnames = [i \in 1..n |-> i]
    /\ chunk_size \in 1..MaxChunkSize
    /\ it = NoIter
    /\ chunks = << >>
    /\ readLog = << >>
    /\ lastShuffle = NoShuffle
    /\ shuffles = 0
    /\ EvaluatorAtRest
    /\ SupplierAtRest

(* the index lists shuffle is called with on a source of n entries: every  *)
(* permutation of [0, n), and lists that are too short, too long, repeat    *)
(* an index, or hold an index out of range                                  *)
Perms(n) == {q \in [1..n -> 0..(n - 1)] : \A i, j \in 1..n : q[i] = q[j] => i = j}

Malformed(n) ==
    {[i \in 1..(n - 1) |-> i - 1] : m \in {n} \cap 1..MaxLen}
    \cup {[i \in 1..(n + 1) |-> IF i <= n THEN i - 1 ELSE 0] : m \in {n} \cap 0..(MaxLen - 1)}
    \cup {[i \in 1..n |-> 0], [i \in 1..n |-> IF i = 1 THEN n ELSE i - 1]}

IndexLists == [n \in 0..MaxLen |-> Perms(n) \cup Malformed(n)]

NextSource ==
    \/ \E indices \in IndexLists[Len(fnames)] : Shuffle(indices)
    \/ Iter
    \/ NextChunk

SpecSource == InitSource /\ [][NextSource]_vars

(* an Evaluator over a model that may not have been built yet, and two     *)
(* providers yielding at most one batch                                    *)
InitCompile ==
    /\ \E n \in 0..1, keys \in KeyChoices :
          /\ n = 0 => keys = {"x"}
          /\ batches = [j \in 1..n |-> MakeBatch(keys, 0, 1)]
          /\ provLen = [p \in Providers |-> IF p = "sized" THEN n ELSE NoTotal]
    /\ compiled = 0
    /\ built \in BOOLEAN
    /\ registered = {}
    /\ provSources = [p \in Providers |-> {}]
    /\ events = << >>
    /\ lastCompile = NoCompile
    /\ pc = "idle"
    /\ provider = "None"
    /\ callback = FALSE
    /\ total = NoTotal
    /\ has_truth = "None"
    /\ result = NoneDict
    /\ truth = NoneDict
    /\ n_entries = 0
    /\ pos = 0
    /\ cbCalls = << >>
    /\ ret = NoRet
    /\ prev = NoCall
    /\ SourceAtRest
    /\ SupplierAtRest

NextCompile ==
    \/ \E recompile \in BOOLEAN, wp \in Providers \cup {"None"} : CompileCall(recompile, wp)
    \/ \E p \in Providers, cb \in BOOLEAN : EvaluateCall(p, cb)
    \/ EvaluateBatch
    \/ EvaluateReturn

SpecCompile == InitCompile /\ [][NextCompile]_vars

(* a supplier as constructed, about to be asked for some sources *)
InitSupplier ==
    /\ data = InitialData
    /\ gsArg \in GetSourcesArgs
    /\ gsRet = GsPending
    /\ EvaluatorAtRest
    /\ SourceAtRest

NextSupplier ==
    \/ GetSources
    \/ \E arg \in GetSourcesArgs : Request(arg)

SpecSupplier == InitSupplier /\ [][NextSupplier]_vars

(* ========================= properties of MySource ======================= *)
(* it.dirty: a shuffle happened after the current pass started reading *)
PassComplete == it.state = "exhausted" /\ ~it.dirty

RECURSIVE ConcatChunks(_)
ConcatChunks(cs) == IF cs = << >> THEN << >> ELSE Head(cs) \o ConcatChunks(Tail(cs))

IsPermutation(indices, n) ==
    /\ Len(indices) = n
    /\ \A v \in 0..(n - 1) : \E i \in 1..n : indices[i] = v

Identity(n) == [i \in 1..n |-> i - 1]

(* C8: iteration never pads. Every yielded chunk has exactly as many rows   *)
(* as records were read for it, at most chunk_size; when the length is not  *)
(* a multiple of chunk_size the final chunk has (length mod chunk_size)     *)
(* rows.                                                                    *)
C8_NeverPads ==
    /\ \A i \in 1..Len(chunks) :
         /\ Len(chunks[i]) = Len(readLog[i])
         /\ Len(chunks[i]) <= chunk_size
    /\ (PassComplete /\ Len(fnames) % chunk_size # 0)
       => Len(chunks[Len(chunks)]) = Len(fnames) % chunk_size

(* C9: order preservation. The chunks of one full pass, concatenated in     *)
(* yielded order, are exactly len(source) rows, row i being the record of   *)
(* the i-th entry of the source's ordering.                                 *)
C9_OrderPreservation ==
    PassComplete
    => /\ Len(ConcatChunks(chunks)) = Len(fnames)
       /\ \A i \in 1..Len(fnames) : ConcatChunks(chunks)[i] = Record(fnames[i])

(* C10: shuffle correctness. After shuffle(p) with p a permutation of       *)
(* [0, len), entry i of the ordering is the former entry p[i], the length   *)
(* is unchanged, the identity permutation changes nothing, and a pass       *)
(* started afterwards reads the records in exactly that order.              *)
C10_ShuffleCorrectness ==
    (lastShuffle.done /\ IsPermutation(lastShuffle.indices, Len(lastShuffle.before)))
    => /\ ~lastShuffle.raised
       /\ Len(fnames) = Len(lastShuffle.before)
       /\ \A i \in 1..Len(fnames) :
            fnames[i] = lastShuffle.before[lastShuffle.indices[i] + 1]
       /\ lastShuffle.indices = Identity(Len(lastShuffle.before))
          => fnames = lastShuffle.before
       /\ PassComplete
          => /\ Len(ConcatChunks(readLog)) = Len(lastShuffle.before)
             /\ \A i \in 1..Len(lastShuffle.before) :
                  ConcatChunks(readLog)[i] = lastShuffle.before[lastShuffle.indices[i] + 1]

C10_Witness ==
    /\ lastShuffle.done
    /\ lastShuffle.before = <<1, 2, 3>>
    /\ lastShuffle.indices = <<1, 2, 0>>
    /\ fnames = <<2, 3, 1>>
    /\ PassComplete
    /\ ConcatChunks(readLog) = <<2, 3, 1>>

(* C11: invalid permutations are rejected atomically. shuffle(indices) with *)
(* a list that is not a permutation of [0, len) (wrong length included)     *)
(* fails with an error and leaves the record order and length as they were. *)
C11_InvalidPermutationRejected ==
    (lastShuffle.done /\ ~IsPermutation(lastShuffle.indices, Len(lastShuffle.before)))
    => /\ lastShuffle.raised
       /\ fnames = lastShuffle.before

(* ======================== properties of MySupplier ====================== *)
Returned == gsRet.kind # "pending"

SomeUnknownName == \E i \in 1..Len(gsArg.names) : gsArg.names[i] \notin {"x", "y"}

(* C12: get_sources is all-or-nothing. If any requested name is not         *)
(* registered, it raises an error naming an offending key and listing all   *)
(* valid keys, returns no source at all, and the registry is unchanged.     *)
C12_GetSourcesAllOrNothing ==
    /\ data = InitialData
    /\ (Returned /\ SomeUnknownName)
       => /\ gsRet.kind = "KeyError"
          /\ gsRet.val = EmptyDict
          /\ gsRet.key \in Range(gsArg.names) \ {"x", "y"}
          /\ gsRet.valid = <<"x", "y">>

C12_Witness ==
    /\ gsArg = [kind |-> "list", names |-> <<"x", "z", "y">>]
    /\ gsRet.kind = "KeyError"
    /\ gsRet.key = "z"

(* C16: get_sources selection. With names omitted it returns all registered *)
(* sources; with one registered scalar name the mapping of exactly that     *)
(* source; with a list or tuple of registered names the mapping whose keys  *)
(* are exactly the requested names, each mapped to its registered source.   *)
C16_GetSourcesSelection ==
    (Returned /\ ~SomeUnknownName)
    => /\ gsRet.kind = "dict"
       /\ gsArg.kind = "None" => DOMAIN gsRet.val = {"x", "y"}
       /\ gsArg.kind = "scalar" => DOMAIN gsRet.val = {gsArg.names[1]}
       /\ gsArg.kind \in {"list", "tuple"} => DOMAIN gsRet.val = Range(gsArg.names)
       /\ \A k \in DOMAIN gsRet.val : gsRet.val[k] = [class |-> "MySource", name |-> k]

C16_Witness ==
    /\ gsArg = [kind |-> "tuple", names |-> <<"y", "x", "y">>]
    /\ gsRet.kind = "dict"
    /\ DOMAIN gsRet.val = {"x", "y"}

(* C19: iteration is restartable. Whatever generator a new one replaces    *)
(* (none, unstarted, abandoned part-way, exhausted), the new pass reads     *)
(* from index 0 of the ordering the source has when the pass starts, in     *)
(* order, and as long as no shuffle intervenes the ordering and the length  *)
(* stay what the pass found.                                                *)
C19_IterationRestartable ==
    (it.state \in {"running", "exhausted"} /\ ~it.dirty)
    => /\ fnames = it.ordering
       /\ it.num_entries = Len(fnames)
       /\ Len(readLog) >= 1 => readLog[1] = PySlice(fnames, 0, chunk_size)
       /\ ConcatChunks(readLog) = PySlice(fnames, 0, it.start)

C19_Witness ==
    /\ it.after = "running"
    /\ Len(fnames) = 3
    /\ lastShuffle.done
    /\ lastShuffle.indices = <<2, 0, 1>>
    /\ it.state = "running"
    /\ ~it.dirty
    /\ readLog = << <<3, 1>> >>

(* ================= further properties of Evaluator.evaluate ============= *)
(* rows of a returned array: entries of a list, elements of a 1-D ndarray *)
NumRows(arr) == IF arr.kind = "list" THEN Len(arr.rows) ELSE Len(arr.data)

(* C15: truth is all-or-nothing. Whenever evaluate without a callback       *)
(* returns (result, truth), truth is None or a mapping with the key set of  *)
(* result and, per key, as many rows as result[key].                        *)
C15_TruthAllOrNothing ==
    (pc = "done" /\ ret.kind = "tuple")
    => \/ ret.truth.isNone
       \/ /\ ~ret.result.isNone
          /\ DOMAIN ret.truth.val = DOMAIN ret.result.val
          /\ \A k \in DOMAIN ret.truth.val :
               NumRows(ret.truth.val[k]) = NumRows(ret.result.val[k])

C15_Witness ==
    /\ pc = "done"
    /\ ret.kind = "tuple"
    /\ total = NoTotal
    /\ ~ret.truth.isNone
    /\ Len(batches) = 2
    /\ BatchSize(batches[1]) = 2
    /\ NumRows(ret.truth.val["y"]) = TotalRows * RowWidth

(* C17: in the known-total strategy the accumulator is never grown: after   *)
(* every batch each result list and each truth list has length total.       *)
C17_AccumulatorNeverGrown ==
    (pc \in {"loop", "done"} /\ ~callback /\ total # NoTotal /\ ret.kind # "raise")
    => /\ \A k \in DOMAIN result.val : Len(result.val[k]) = total
       /\ \A k \in DOMAIN truth.val : Len(truth.val[k]) = total

(* C20: evaluate without a callback returns a (result, truth) pair for      *)
(* every batch sequence whose batches can all be absorbed, the empty one    *)
(* included, whether or not the total is known.                             *)
C20_AlwaysReturnsPair ==
    (pc = "done" /\ ~callback /\ ret.exc # "KeyError") => ret.kind = "tuple"

(* ===================== properties of Evaluator.compile ================== *)
(* the place of a collaborator call among those of the last compile call *)
Pos(ev) == IF \E i \in 1..Len(events) : events[i] = ev
           THEN CHOOSE i \in 1..Len(events) : events[i] = ev ELSE 0

Count(ev) == Cardinality({i \in 1..Len(events) : events[i] = ev})

FastPath == lastCompile.called /\ lastCompile.compiled # 0 /\ ~lastCompile.recompile

(* C13: compile is idempotent. A compile call (made directly or by          *)
(* evaluate) invokes backend.compile and replaces the handle iff the        *)
(* Evaluator was uncompiled or recompile = True; otherwise it changes       *)
(* nothing; the handle is always the one of the most recent backend.compile *)
C13_CompileIdempotent ==
    lastCompile.called
    => /\ Count("backend.compile") = (IF FastPath THEN 0 ELSE 1)
       /\ FastPath => /\ compiled = lastCompile.compiled
                      /\ built = lastCompile.built
                      /\ registered = lastCompile.registered
                      /\ provSources = lastCompile.provSources
                      /\ events = << >>
       /\ ~FastPath => /\ compiled # lastCompile.compiled
                       /\ compiled > lastCompile.compiled

C13_Witness ==
    /\ FastPath
    /\ lastCompile.with_provider = "unsized"
    /\ compiled = 2
    /\ pc = "done"

(* C14: whenever compile is called with a provider, and so on every         *)
(* evaluate(provider), every data source of the model has been added to     *)
(* that provider when compile returns.                                      *)
C14_SourcesMerged ==
    (lastCompile.called /\ lastCompile.with_provider # "None")
    => ModelSources \subseteq provSources[lastCompile.with_provider]

(* C18: ordering inside a compile call off the fast path. If the model was  *)
(* not built: register_provider (when a provider is given) precedes build,  *)
(* build precedes backend.compile; every add_source follows backend.compile;*)
(* if the model was already built neither register_provider nor build is    *)
(* called.                                                                  *)
C18_CompileOrdering ==
    (lastCompile.called /\ ~FastPath)
    => /\ Pos("backend.compile") > 0
       /\ ~lastCompile.built
          => /\ Pos("build") > 0
             /\ Pos("build") < Pos("backend.compile")
             /\ lastCompile.with_provider # "None"
                => /\ Pos("register_provider") > 0
                   /\ Pos("register_provider") < Pos("build")
             /\ lastCompile.with_provider = "None" => Pos("register_provider") = 0
       /\ lastCompile.built => Pos("build") = 0 /\ Pos("register_provider") = 0
       /\ Pos("add_source") > 0 => Pos("add_source") > Pos("backend.compile")
       /\ lastCompile.with_provider # "None" => Pos("add_source") > 0

C18_Witness ==
    /\ lastCompile.called
    /\ ~lastCompile.built
    /\ lastCompile.with_provider = "sized"
    /\ events = <<"register_provider", "build", "backend.compile", "add_source">>

====
